---- MODULE Spec2Model ----
(***************************************************************************)
(* Model of cloudflare-kv-rate-limit (src/src/CloudflareKVRateLimiter.js): *)
(* a sliding-window rate limiter with an optional minimum-interval gate,   *)
(* keeping one JSON array of millisecond timestamps per key in a KV store. *)
(*                                                                         *)
(* Times are integer milliseconds (Date.now()); limit, period and interval *)
(* are the floored options of the constructor.  The store holds, per key,  *)
(* the parsed JSON value of the record and the TTL of its last put.        *)
(***************************************************************************)
EXTENDS Integers, Sequences, FiniteSets, TLC

VARIABLES cfg, store, clock, log, budget

vars == <<cfg, store, clock, log, budget>>

---------------------------------------------------------------------------
(* Bounds of the model *)

\* largest configured limit explored
MaxLimit == 2
\* number of limiter calls in one behaviour that starts from an empty store
MaxCalls == 3
\* number of limiter calls in one behaviour that starts from a pre-seeded store
MaxSeededCalls == 2
\* longest pre-seeded record
MaxSeedLen == 3

\* configured periods and intervals (seconds)
Periods == {60}
Intervals == {0, 1, 60}
Prefixes == {"ratelimit:", "p:"}
Keys == {"a", "b"}
\* values Date.now() takes (ms)
Instants == {0, 999, 1000, 2000, 59999, 60000, 61000}
\* timestamps (ms) found in pre-seeded records
SeedTimes == {0, 1000}

KVKeys == {p \o k : p \in Prefixes, k \in Keys}

---------------------------------------------------------------------------
(* JSON values *)

\* a JSON number
Num(v) == [typeof |-> "number", v |-> v]
\* a JSON array element that is not a number (string, null, object)
NonNum == [typeof |-> "string", v |-> 0]

\* the value KV.get(key, 'json') yields: null, an array, or another JSON value
Absent == [kind |-> "null", items |-> <<>>, expirationTtl |-> 0]
ArrayVal(items, ttl) == [kind |-> "array", items |-> items, expirationTtl |-> ttl]
OtherVal == [kind |-> "object", items |-> <<>>, expirationTtl |-> 0]

\* JSON.stringify(arr) of an array of numbers, as the store parses it back
JSONStringify(arr) == [i \in DOMAIN arr |-> Num(arr[i])]

---------------------------------------------------------------------------
(* Helpers of the module *)

periodMs == cfg.period * 1000
intervalMs == cfg.interval * 1000

\* variant: the smaller of the two (Math.min for Math.max)
Max_smaller(a, b) == IF a <= b THEN a ELSE b

\* Math.max(a, b)
Max(a, b) == IF a >= b THEN a ELSE b

\* variant: the milliseconds rounded down (Math.floor for Math.ceil)
CeilSec_floor(ms) == ms \div 1000

\* Math.ceil(ms / 1000) for ms >= 0
CeilSec(ms) == (ms + 999) \div 1000

\* get(KV, key): Array.isArray(val) ? val : []
get(KV, key) == IF KV[key].kind = "array" THEN KV[key].items ELSE <<>>

\* variant: the TTL passed in milliseconds
set_ttlMs(KV, key, arr, period) ==
  [KV EXCEPT ![key] = ArrayVal(JSONStringify(arr), period * 1000)]

\* set(KV, key, arr, period): KV.put(key, JSON.stringify(arr), {expirationTtl})
set(KV, key, arr, period) ==
  [KV EXCEPT ![key] = ArrayVal(JSONStringify(arr), period)]

\* one put as the store sees it
PutCall(key, arr, period) ==
  [key |-> key, value |-> JSONStringify(arr), expirationTtl |-> period]

\* variant: an entry exactly one period old still counts (>= for >)
Live_inclusive(e, now) == e.typeof = "number" /\ e.v >= (now - periodMs)

\* arr.filter(ts => typeof ts === 'number' && ts > (now - periodMs))
Live(e, now) == e.typeof = "number" /\ e.v > (now - periodMs)

RECURSIVE Filter(_, _)
Filter(raw, now) ==
  IF raw = <<>> THEN <<>>
  ELSE IF Live(Head(raw), now)
       THEN <<Head(raw).v>> \o Filter(Tail(raw), now)
       ELSE Filter(Tail(raw), now)

\* insert x into the ascending sequence s, after the elements equal to it
RECURSIVE Insert(_, _)
Insert(s, x) ==
  IF s = <<>> THEN <<x>>
  ELSE IF x < Head(s) THEN <<x>> \o s
       ELSE <<Head(s)>> \o Insert(Tail(s), x)

\* arr.sort((a, b) => a - b)
RECURSIVE Sort(_)
Sort(s) == IF s = <<>> THEN <<>> ELSE Insert(Sort(SubSeq(s, 1, Len(s) - 1)), s[Len(s)])

\* variant: the oldest limit entries are kept (slice(0, limit))
Trim_keepsOldest(arr) ==
  IF Len(arr) > cfg.limit THEN SubSeq(arr, 1, cfg.limit) ELSE arr

\* arr.slice(arr.length - limit) when arr.length > limit
Trim(arr) ==
  IF Len(arr) > cfg.limit THEN SubSeq(arr, Len(arr) - cfg.limit + 1, Len(arr)) ELSE arr

\* computeState: const first = arr[0]
first(arr) == IF Len(arr) > 0 THEN arr[1] ELSE 0

\* computeState: const last = arr[arr.length - 1]
last(arr) == IF Len(arr) > 0 THEN arr[Len(arr)] ELSE 0

\* variant: the limit gate off by one (<= for <)
allowedByLimit_offByOne(arr) == Len(arr) <= cfg.limit

\* computeState: arr.length < limit
allowedByLimit(arr) == Len(arr) < cfg.limit

\* variant: the elapsed milliseconds compared with the interval in seconds
allowedByInterval_seconds(arr, now) ==
  intervalMs <= 0 \/ Len(arr) = 0 \/ (now - last(arr)) >= cfg.interval

\* computeState: intervalMs <= 0 || last == null || (now - last) >= intervalMs
allowedByInterval(arr, now) ==
  intervalMs <= 0 \/ Len(arr) = 0 \/ (now - last(arr)) >= intervalMs

\* variant: the interval gate's wait is never pushed
resets_limitOnly(arr, now) ==
  IF ~allowedByLimit(arr) THEN {(first(arr) + periodMs) - now} ELSE {}

\* computeState: the waits pushed on resets, one per blocking gate
resets(arr, now) ==
  (IF ~allowedByLimit(arr) THEN {(first(arr) + periodMs) - now} ELSE {})
  \cup (IF ~allowedByInterval(arr, now) THEN {(last(arr) + intervalMs) - now} ELSE {})

\* variant: the smaller of the waits is reported (Math.min for Math.max)
resetMs_smallest(arr, now) ==
  LET rs == resets(arr, now)
  IN Max(0, IF rs # {} THEN CHOOSE m \in rs : \A o \in rs : m <= o ELSE 0)

\* computeState: Math.max(0, resets.length ? Math.max(...resets) : 0)
resetMs(arr, now) ==
  LET rs == resets(arr, now)
  IN Max(0, IF rs # {} THEN CHOOSE m \in rs : \A o \in rs : m >= o ELSE 0)

\* variant: reset truncated to whole seconds (Math.floor for Math.ceil)
computeState_truncatedReset(arr, now) ==
  LET success == allowedByLimit(arr) /\ allowedByInterval(arr, now)
  IN [success |-> success,
      remaining |-> Max(0, cfg.limit - Len(arr)),
      reset |-> IF success THEN 0 ELSE resetMs(arr, now) \div 1000]

\* computeState(arr, now)
computeState(arr, now) ==
  LET success == allowedByLimit(arr) /\ allowedByInterval(arr, now)
  IN [success |-> success,
      remaining |-> Max(0, cfg.limit - Len(arr)),
      reset |-> IF success THEN 0 ELSE CeilSec(resetMs(arr, now))]

---------------------------------------------------------------------------
(* The two entry points, as functions of the store and the clock *)

\* variant: remaining computed before the push of now
ratelimiter_remainingBeforePush(KV, key, now) ==
  LET kvKey == cfg.prefix \o key
      raw == get(KV, kvKey)
      filtered == Sort(Filter(raw, now))
      arr == Trim(filtered)
      changed == Len(filtered) # Len(raw) \/ Len(filtered) > cfg.limit
      st == computeState(arr, now)
      arr2 == IF st.success THEN Append(arr, now) ELSE arr
      writes == st.success \/ changed
  IN [res |-> [success |-> st.success, limit |-> cfg.limit,
               remaining |-> Max(0, cfg.limit - Len(arr)), reset |-> st.reset],
      puts |-> IF writes THEN <<PutCall(kvKey, arr2, cfg.period)>> ELSE <<>>,
      KV |-> IF writes THEN set(KV, kvKey, arr2, cfg.period) ELSE KV]

\* ratelimiter(key): the result, the puts it issues and the store it leaves
ratelimiter(KV, key, now) ==
  LET kvKey == cfg.prefix \o key
      raw == get(KV, kvKey)
      originalLength == Len(raw)
      filtered == Sort(Filter(raw, now))
      changed0 == Len(filtered) # originalLength
      arr == Trim(filtered)
      changed == changed0 \/ Len(filtered) > cfg.limit
      st == computeState(arr, now)
      arr2 == IF st.success THEN Append(arr, now) ELSE arr
      writes == st.success \/ changed
      remaining == Max(0, cfg.limit - Len(arr2))
  IN [res |-> [success |-> st.success, limit |-> cfg.limit,
               remaining |-> remaining, reset |-> st.reset],
      puts |-> IF writes THEN <<PutCall(kvKey, arr2, cfg.period)>> ELSE <<>>,
      KV |-> IF writes THEN set(KV, kvKey, arr2, cfg.period) ELSE KV]

\* variant: Inspect persists its cleanup the way Consume does
ratelimiterGet_writesCleanup(KV, key, now) ==
  LET kvKey == cfg.prefix \o key
      raw == get(KV, kvKey)
      arr == Sort(Filter(raw, now))
      st == computeState(arr, now)
      writes == Len(arr) # Len(raw)
  IN [res |-> [success |-> st.success, limit |-> cfg.limit,
               remaining |-> st.remaining, reset |-> st.reset],
      puts |-> IF writes THEN <<PutCall(kvKey, arr, cfg.period)>> ELSE <<>>,
      KV |-> IF writes THEN set(KV, kvKey, arr, cfg.period) ELSE KV]

\* ratelimiter.get(key)
ratelimiterGet(KV, key, now) ==
  LET kvKey == cfg.prefix \o key
      arr == Sort(Filter(get(KV, kvKey), now))
      st == computeState(arr, now)
  IN [res |-> [success |-> st.success, limit |-> cfg.limit,
               remaining |-> st.remaining, reset |-> st.reset],
      puts |-> <<>>,
      KV |-> KV]

---------------------------------------------------------------------------
(* The entry points with their argument checks, the binding lookup and a   *)
(* store whose get or put may throw                                        *)

\* what the runtime does during one call: env[binding] is a KV namespace
\* or not, KV.get throws or not, KV.put throws or not
IOs == [kv : BOOLEAN, getFails : BOOLEAN, putFails : BOOLEAN]
NoFaults == [kv |-> TRUE, getFails |-> FALSE, putFails |-> FALSE]

NoError == "none"
KeyError == "key must be a non-empty string"
BindingError == "KV binding not found or invalid for name"

\* the result slot of a call that threw
NoResult == [success |-> FALSE, limit |-> 0, remaining |-> 0, reset |-> 0]

\* variant: the exception of KV.get is not caught
getIO_uncaught(KV, key, fails) ==
  [threw |-> fails, arr |-> IF fails THEN <<>> ELSE get(KV, key)]

\* get(KV, key): try { ... } catch (_) { return [] }
getIO(KV, key, fails) ==
  [threw |-> FALSE, arr |-> IF fails THEN <<>> ELSE get(KV, key)]

\* variant: the exception of KV.put is not caught
setIO_uncaught(KV, key, arr, period, fails) ==
  [threw |-> fails, KV |-> IF fails THEN KV ELSE set(KV, key, arr, period)]

\* set(KV, key, arr, period): try { await KV.put(...) } catch (_) {}
setIO(KV, key, arr, period, fails) ==
  [threw |-> FALSE, KV |-> IF fails THEN KV ELSE set(KV, key, arr, period)]

\* a call that threw before it returned a result
Thrown(KV, msg, gets, getFailed, puts, putFailed) ==
  [error |-> msg, res |-> NoResult, gets |-> gets, getFailed |-> getFailed,
   puts |-> puts, putFailed |-> putFailed, KV |-> KV]

\* variant: now is put in front of the array (unshift for push)
ratelimiterRun_unshift(KV, key, now, io) ==
  LET kvKey == cfg.prefix \o key
      rd == getIO(KV, kvKey, io.getFails)
      raw == rd.arr
      originalLength == Len(raw)
      filtered == Sort(Filter(raw, now))
      arr == Trim(filtered)
      changed == Len(filtered) # originalLength \/ Len(filtered) > cfg.limit
      st == computeState(arr, now)
      arr2 == IF st.success THEN <<now>> \o arr ELSE arr
      writes == st.success \/ changed
      wr == IF writes THEN setIO(KV, kvKey, arr2, cfg.period, io.putFails)
            ELSE [threw |-> FALSE, KV |-> KV]
      puts == IF writes THEN <<PutCall(kvKey, arr2, cfg.period)>> ELSE <<>>
  IN IF rd.threw THEN Thrown(KV, "get failed", 1, TRUE, <<>>, FALSE)
     ELSE IF wr.threw THEN Thrown(wr.KV, "put failed", 1, io.getFails, puts, TRUE)
     ELSE [error |-> NoError,
           res |-> [success |-> st.success, limit |-> cfg.limit,
                    remaining |-> Max(0, cfg.limit - Len(arr2)), reset |-> st.reset],
           gets |-> 1, getFailed |-> io.getFails,
           puts |-> puts, putFailed |-> writes /\ io.putFails,
           KV |-> wr.KV]

\* ratelimiter(key) from the store read on, lines 68-95
ratelimiterRun(KV, key, now, io) ==
  LET kvKey == cfg.prefix \o key
      rd == getIO(KV, kvKey, io.getFails)
      raw == rd.arr
      originalLength == Len(raw)
      filtered == Sort(Filter(raw, now))
      arr == Trim(filtered)
      changed == Len(filtered) # originalLength \/ Len(filtered) > cfg.limit
      st == computeState(arr, now)
      arr2 == IF st.success THEN Append(arr, now) ELSE arr
      writes == st.success \/ changed
      wr == IF writes THEN setIO(KV, kvKey, arr2, cfg.period, io.putFails)
            ELSE [threw |-> FALSE, KV |-> KV]
      puts == IF writes THEN <<PutCall(kvKey, arr2, cfg.period)>> ELSE <<>>
  IN IF rd.threw THEN Thrown(KV, "get failed", 1, TRUE, <<>>, FALSE)
     ELSE IF wr.threw THEN Thrown(wr.KV, "put failed", 1, io.getFails, puts, TRUE)
     ELSE [error |-> NoError,
           res |-> [success |-> st.success, limit |-> cfg.limit,
                    remaining |-> Max(0, cfg.limit - Len(arr2)), reset |-> st.reset],
           gets |-> 1, getFailed |-> io.getFails,
           puts |-> puts, putFailed |-> writes /\ io.putFails,
           KV |-> wr.KV]

\* variant: the key is checked only after the store has been read
ratelimiterIO_lateKeyCheck(KV, key, now, io) ==
  IF ~io.kv THEN Thrown(KV, BindingError, 0, FALSE, <<>>, FALSE)
  ELSE IF key = "" THEN Thrown(KV, KeyError, 1, io.getFails, <<>>, FALSE)
  ELSE ratelimiterRun(KV, key, now, io)

\* ratelimiter(key): assert(key), await resolveKV(), then the run
ratelimiterIO(KV, key, now, io) ==
  IF key = "" THEN Thrown(KV, KeyError, 0, FALSE, <<>>, FALSE)
  ELSE IF ~io.kv THEN Thrown(KV, BindingError, 0, FALSE, <<>>, FALSE)
  ELSE ratelimiterRun(KV, key, now, io)

\* ratelimiter.get(key), lines 104-118, with the outcomes of its awaits
ratelimiterGetIO(KV, key, now, io) ==
  IF key = "" THEN Thrown(KV, KeyError, 0, FALSE, <<>>, FALSE)
  ELSE IF ~io.kv THEN Thrown(KV, BindingError, 0, FALSE, <<>>, FALSE)
  ELSE
    LET kvKey == cfg.prefix \o key
        rd == getIO(KV, kvKey, io.getFails)
        arr == Sort(Filter(rd.arr, now))
        st == computeState(arr, now)
    IN IF rd.threw THEN Thrown(KV, "get failed", 1, TRUE, <<>>, FALSE)
       ELSE [error |-> NoError,
             res |-> [success |-> st.success, limit |-> cfg.limit,
                      remaining |-> st.remaining, reset |-> st.reset],
             gets |-> 1, getFailed |-> io.getFails,
             puts |-> <<>>, putFailed |-> FALSE,
             KV |-> KV]

---------------------------------------------------------------------------
(* State machine *)

\* CloudflareKVRateLimiter(opts) with valid options
Configs ==
  {c \in [limit : 1..MaxLimit, period : Periods, interval : Intervals, prefix : Prefixes] :
     c.interval <= c.period}

LogEntry(op, key, now, before, out) ==
  [op |-> op, key |-> key, now |-> now, before |-> before,
   res |-> out.res, puts |-> out.puts, after |-> out.KV[cfg.prefix \o key]]

\* a new limiter over an empty KV namespace
Init ==
  /\ cfg \in Configs
  /\ store = [k \in KVKeys |-> Absent]
  /\ clock = 0
  /\ log = <<>>
  /\ budget = MaxCalls

\* Date.now() moves forward between calls
Tick ==
  /\ Len(log) < budget
  /\ \E t \in Instants : t > clock /\ clock' = t
  /\ UNCHANGED <<cfg, store, log, budget>>

\* await ratelimiter(key)
Consume(key) ==
  /\ Len(log) < budget
  /\ LET out == ratelimiter(store, key, clock)
     IN /\ store' = out.KV
        /\ log' = Append(log, LogEntry("consume", key, clock, store[cfg.prefix \o key], out))
  /\ UNCHANGED <<cfg, clock, budget>>

\* await ratelimiter.get(key)
Inspect(key) ==
  /\ Len(log) < budget
  /\ LET out == ratelimiterGet(store, key, clock)
     IN /\ store' = out.KV
        /\ log' = Append(log, LogEntry("get", key, clock, store[cfg.prefix \o key], out))
  /\ UNCHANGED <<cfg, clock, budget>>

Next ==
  \/ Tick
  \/ \E key \in Keys : Consume(key)
  \/ \E key \in Keys : Inspect(key)

Spec == Init /\ [][Next]_vars

\* records another writer may have left in the namespace
RECURSIVE SeqsUpTo(_, _)
SeqsUpTo(S, n) ==
  IF n = 0 THEN {<<>>}
  ELSE LET shorter == SeqsUpTo(S, n - 1)
       IN shorter \cup {Append(s, e) : s \in shorter, e \in S}

SeedEntries == {Num(t) : t \in SeedTimes} \cup {NonNum}
SeedValues == {ArrayVal(s, 0) : s \in SeqsUpTo(SeedEntries, MaxSeedLen)} \cup {OtherVal}

\* a new limiter over a namespace in which key "a" already has a record
InitSeeded ==
  /\ cfg \in {c \in Configs : c.prefix = "ratelimit:"}
  /\ \E v \in SeedValues :
       store = [k \in KVKeys |-> IF k = "ratelimit:a" THEN v ELSE Absent]
  /\ clock = 0
  /\ log = <<>>
  /\ budget = MaxSeededCalls

\* the calls on the key whose record was pre-seeded
NextSeeded ==
  \/ Tick
  \/ Consume("a")
  \/ Inspect("a")

SpecSeeded == InitSeeded /\ [][NextSeeded]_vars

---------------------------------------------------------------------------
(* Calls against a store that may fail, with keys that may be empty *)

\* number of limiter calls in one behaviour over a store that may fail
MaxFaultyCalls == 2

\* the keys callers pass; the empty string is not a valid key
CallKeys == {"a", ""}

\* the stored record under prefix + key (none for the empty key)
RecordOf(KV, key) == IF cfg.prefix \o key \in DOMAIN KV THEN KV[cfg.prefix \o key] ELSE Absent

IOEntry(op, key, now, KV, out) ==
  [op |-> op, key |-> key, now |-> now, before |-> RecordOf(KV, key),
   res |-> out.res, puts |-> out.puts, after |-> RecordOf(out.KV, key),
   error |-> out.error, gets |-> out.gets,
   getFailed |-> out.getFailed, putFailed |-> out.putFailed]

\* a new limiter over an empty KV namespace that may fail
InitFaulty ==
  /\ cfg \in {c \in Configs : c.prefix = "ratelimit:"}
  /\ store = [k \in KVKeys |-> Absent]
  /\ clock = 0
  /\ log = <<>>
  /\ budget = MaxFaultyCalls

\* await ratelimiter(key) while KV.get / KV.put may throw
ConsumeIO(key, io) ==
  /\ Len(log) < budget
  /\ LET out == ratelimiterIO(store, key, clock, io)
     IN /\ store' = out.KV
        /\ log' = Append(log, IOEntry("consume", key, clock, store, out))
  /\ UNCHANGED <<cfg, clock, budget>>

\* await ratelimiter.get(key) while KV.get may throw
InspectIO(key, io) ==
  /\ Len(log) < budget
  /\ LET out == ratelimiterGetIO(store, key, clock, io)
     IN /\ store' = out.KV
        /\ log' = Append(log, IOEntry("get", key, clock, store, out))
  /\ UNCHANGED <<cfg, clock, budget>>

NextFaulty ==
  \/ Tick
  \/ \E key \in CallKeys : \E io \in {f \in IOs : f.kv} : ConsumeIO(key, io)
  \/ \E key \in CallKeys : \E io \in {f \in IOs : f.kv} : InspectIO(key, io)

SpecFaulty == InitFaulty /\ [][NextFaulty]_vars

---------------------------------------------------------------------------
(* Construction: CloudflareKVRateLimiter(opts), lines 13-28 *)

\* a numeric option as the caller passes it: missing, or a number given in
\* halves (3 halves = 1.5) so that Math.floor has something to do
Missing == [given |-> FALSE, halves |-> 0]
Halves(h) == [given |-> TRUE, halves |-> h]

\* Math.floor(x); Math.floor(undefined) is NaN
Floor(x) ==
  IF x.given THEN [nan |-> FALSE, v |-> x.halves \div 2] ELSE [nan |-> TRUE, v |-> 0]

BindingOptError == "binding must be a non-empty string (KV binding name)"
PrefixError == "prefix must be a non-empty string"
LimitError == "limit must be >= 1"
PeriodError == "period must be >= 60 seconds (Cloudflare KV TTL minimum)"
IntervalError == "interval must be >= 0"
IntervalPeriodError == "interval must be <= period"

\* the options explored.  capability is what the runtime holds for the
\* store: a KV namespace ("valid"), an object without get/put ("invalid")
\* or nothing ("none")
OptLimits == {Missing, Halves(0), Halves(1), Halves(2), Halves(3)}
OptPeriods == {Missing, Halves(118), Halves(119), Halves(120)}
OptIntervals == {Missing, Halves(-1), Halves(0), Halves(2), Halves(120), Halves(121), Halves(122)}
OptPrefixes == {"undefined", "", "p:"}
OptBindings == {"undefined", "KV", "nonstring"}
Capabilities == {"none", "invalid", "valid"}

Opts ==
  [capability : Capabilities, binding : OptBindings, prefix : OptPrefixes,
   limit : OptLimits, period : OptPeriods, interval : OptIntervals]

\* opts.binding || 'KV'; a value that is not a string stays as it is
bindingOf(opts) == IF opts.binding = "undefined" THEN "KV" ELSE opts.binding

\* typeof opts.prefix === 'string' ? opts.prefix : 'ratelimit:'
prefixOf(opts) == IF opts.prefix = "undefined" THEN "ratelimit:" ELSE opts.prefix

\* Math.floor(opts.interval ?? 0)
intervalOf(opts) == Floor(IF opts.interval.given THEN opts.interval ELSE Halves(0))

\* the assertions of lines 20-25, in their order: the first that fails
\* gives the TypeError
validate(opts) ==
  LET limit == Floor(opts.limit)
      period == Floor(opts.period)
      interval == intervalOf(opts)
  IN IF bindingOf(opts) = "nonstring" THEN BindingOptError
     ELSE IF prefixOf(opts) = "" THEN PrefixError
     ELSE IF limit.nan \/ limit.v < 1 THEN LimitError
     ELSE IF period.nan \/ period.v < 60 THEN PeriodError
     ELSE IF interval.nan \/ interval.v < 0 THEN IntervalError
     ELSE IF interval.v > period.v THEN IntervalPeriodError
     ELSE NoError

\* CloudflareKVRateLimiter(opts): the limiter, or the error it threw
Construct(opts) ==
  LET err == validate(opts)
      ok == err = NoError
  IN [error |-> err,
      limit |-> IF ok THEN Floor(opts.limit).v ELSE 0,
      period |-> IF ok THEN Floor(opts.period).v ELSE 0,
      interval |-> IF ok THEN intervalOf(opts).v ELSE 0,
      prefix |-> IF ok THEN prefixOf(opts) ELSE "",
      binding |-> bindingOf(opts),
      opts |-> opts]

\* number of limiter calls after a construction
MaxConstructCalls == 1

\* CloudflareKVRateLimiter(opts) called with any of the options
InitConstruct ==
  /\ \E opts \in Opts : cfg = Construct(opts)
  /\ store = [k \in KVKeys |-> Absent]
  /\ clock = 0
  /\ log = <<>>
  /\ budget = MaxConstructCalls

\* resolveKV(): env[binding] must be a KV namespace
resolveKV == [kv |-> cfg.opts.capability = "valid", getFails |-> FALSE, putFails |-> FALSE]

\* the clock of a limiter that exists
TickConstructed == cfg.error = NoError /\ Tick

\* await ratelimiter(key) on the constructed limiter
CallConsume(key) == cfg.error = NoError /\ ConsumeIO(key, resolveKV)

\* await ratelimiter.get(key) on the constructed limiter
CallInspect(key) == cfg.error = NoError /\ InspectIO(key, resolveKV)

NextConstruct ==
  \/ TickConstructed
  \/ \E key \in CallKeys : CallConsume(key)
  \/ \E key \in CallKeys : CallInspect(key)

SpecConstruct == InitConstruct /\ [][NextConstruct]_vars

---------------------------------------------------------------------------
(* Concurrent ratelimiter(key) calls on one key.  A call suspends at its   *)
(* awaits: it reads the clock (line 69), later the store answers its get   *)
(* (line 72) and the call decides (lines 74-86), later its put lands       *)
(* (line 87 or 90).  A call in flight is its entry in log, pc its position *)

\* number of concurrent calls
MaxConcCalls == 3

\* the instants at which the concurrent calls run
ConcInstants == {0, 1000, 60000}

\* puts that have landed in the store so far
NumWrites == Cardinality({i \in DOMAIN log : log[i].wseq > 0})

\* variant: a put appends to the stored array instead of replacing it
KVput_append(KV, put) ==
  [KV EXCEPT ![put.key] = ArrayVal(@.items \o put.value, put.expirationTtl)]

\* KV.put(key, value, { expirationTtl }): the value replaces the record
KVput(KV, put) ==
  [KV EXCEPT ![put.key] = ArrayVal(put.value, put.expirationTtl)]

\* a new limiter over an empty KV namespace, called concurrently
InitConc ==
  /\ cfg \in {c \in Configs : c.prefix = "ratelimit:"}
  /\ store = [k \in KVKeys |-> Absent]
  /\ clock = 0
  /\ log = <<>>
  /\ budget = MaxConcCalls

\* Date.now() moves forward while calls are in flight or still to come
TickConc ==
  /\ Len(log) < budget \/ \E i \in DOMAIN log : log[i].pc # "done"
  /\ \E t \in ConcInstants : t > clock /\ clock' = t
  /\ UNCHANGED <<cfg, store, log, budget>>

\* ratelimiter("a") up to const now = Date.now()
Begin ==
  /\ Len(log) < budget
  /\ log' = Append(log, [op |-> "consume", key |-> "a", pc |-> "clock", now |-> clock,
                         before |-> Absent, res |-> NoResult, puts |-> <<>>,
                         wBegin |-> NumWrites, wRead |-> 0, wseq |-> 0])
  /\ UNCHANGED <<cfg, store, clock, budget>>

\* the get of call i is answered and the call runs up to its put
StoreRead(i) ==
  /\ log[i].pc = "clock"
  /\ LET out == ratelimiterRun(store, log[i].key, log[i].now, NoFaults)
     IN log' = [log EXCEPT ![i] =
                  [@ EXCEPT !.pc = IF out.puts = <<>> THEN "done" ELSE "write",
                            !.before = store[cfg.prefix \o log[i].key],
                            !.res = out.res,
                            !.puts = out.puts,
                            !.wRead = NumWrites]]
  /\ UNCHANGED <<cfg, store, clock, budget>>

\* variant: the put is a compare-and-swap that fails when the record was
\* written since the call read it
StoreWrite_cas(i) ==
  /\ log[i].pc = "write"
  /\ store' = IF log[i].wRead = NumWrites THEN KVput(store, log[i].puts[1]) ELSE store
  /\ log' = [log EXCEPT ![i] = [@ EXCEPT !.pc = "done", !.wseq = NumWrites + 1]]
  /\ UNCHANGED <<cfg, clock, budget>>

\* the put of call i lands and the call returns
StoreWrite(i) ==
  /\ log[i].pc = "write"
  /\ store' = KVput(store, log[i].puts[1])
  /\ log' = [log EXCEPT ![i] = [@ EXCEPT !.pc = "done", !.wseq = NumWrites + 1]]
  /\ UNCHANGED <<cfg, clock, budget>>

NextConc ==
  \/ TickConc
  \/ Begin
  \/ \E i \in DOMAIN log : StoreRead(i)
  \/ \E i \in DOMAIN log : StoreWrite(i)

SpecConc == InitConc /\ [][NextConc]_vars

---------------------------------------------------------------------------
(* Two namespaces side by side, written by the same calls: one never drops *)
(* a record, the other drops a record once its expirationTtl has run out   *)

\* number of calls against the two namespaces
MaxTTLCalls == 3

\* a record of the expiring namespace: the value and the instant from which
\* the store may drop it
NoRecord == [val |-> Absent, expiresAt |-> 0]

\* the namespace as KV.get sees it
View(KVx) == [k \in DOMAIN KVx |-> KVx[k].val]

\* variant: a put on an existing record leaves its expiry as it was
putExpiring_keepsExpiry(KVx, puts, KV, now) ==
  IF puts = <<>> THEN KVx
  ELSE [KVx EXCEPT ![puts[1].key] =
          [val |-> KV[puts[1].key],
           expiresAt |-> IF @.val = Absent
                         THEN now + KV[puts[1].key].expirationTtl * 1000
                         ELSE @.expiresAt]]

\* KV.put on the expiring namespace: expirationTtl counts seconds from the put
putExpiring(KVx, puts, KV, now) ==
  IF puts = <<>> THEN KVx
  ELSE [KVx EXCEPT ![puts[1].key] =
          [val |-> KV[puts[1].key],
           expiresAt |-> now + KV[puts[1].key].expirationTtl * 1000]]

\* a call as the log keeps it: the record and the result on each namespace
TTLEntry(op, key, now, out, outX) ==
  [op |-> op, key |-> key, now |-> now,
   before |-> store.never[cfg.prefix \o key],
   beforeX |-> store.ttl[cfg.prefix \o key].val,
   res |-> out.res, resX |-> outX.res,
   puts |-> out.puts, putsX |-> outX.puts]

\* a new limiter over two empty namespaces
InitTTL ==
  /\ cfg \in {c \in Configs : c.prefix = "ratelimit:"}
  /\ store = [never |-> [k \in KVKeys |-> Absent], ttl |-> [k \in KVKeys |-> NoRecord]]
  /\ clock = 0
  /\ log = <<>>
  /\ budget = MaxTTLCalls

\* the store drops a record whose TTL has run out
Expire(k) ==
  /\ store.ttl[k].val # Absent
  /\ clock >= store.ttl[k].expiresAt
  /\ store' = [store EXCEPT !.ttl[k] = NoRecord]
  /\ UNCHANGED <<cfg, clock, log, budget>>

\* await ratelimiter(key), on each namespace
ConsumeTTL(key) ==
  /\ Len(log) < budget
  /\ LET out == ratelimiter(store.never, key, clock)
         outX == ratelimiter(View(store.ttl), key, clock)
     IN /\ store' = [never |-> out.KV,
                     ttl |-> putExpiring(store.ttl, outX.puts, outX.KV, clock)]
        /\ log' = Append(log, TTLEntry("consume", key, clock, out, outX))
  /\ UNCHANGED <<cfg, clock, budget>>

\* await ratelimiter.get(key), on each namespace
InspectTTL(key) ==
  /\ Len(log) < budget
  /\ LET out == ratelimiterGet(store.never, key, clock)
         outX == ratelimiterGet(View(store.ttl), key, clock)
     IN log' = Append(log, TTLEntry("get", key, clock, out, outX))
  /\ UNCHANGED <<cfg, store, clock, budget>>

NextTTL ==
  \/ Tick
  \/ Expire("ratelimit:a")
  \/ ConsumeTTL("a")
  \/ InspectTTL("a")

SpecTTL == InitTTL /\ [][NextTTL]_vars

---------------------------------------------------------------------------
(* Properties *)

MinOf(a, b) == IF a <= b THEN a ELSE b

\* the call the last step made.  A log entry never changes once appended and
\* cfg is fixed, so a property of every entry of every reachable log is the
\* same as that property of the newest entry in every reachable state.
Called == log # <<>>
LastCall == log[Len(log)]

ConsumeIdx(k) == {i \in DOMAIN log : log[i].op = "consume" /\ log[i].key = k}
AdmittedIdx(k) == {i \in ConsumeIdx(k) : log[i].res.success}

\* C1: in sequential Consume calls on one key from an absent record, every
\* admitted call at time t has at most limit admitted calls (itself
\* included) with a timestamp in (t - period*1000, t].
C1_WindowBound ==
  \A k \in Keys : \A i \in AdmittedIdx(k) :
    Cardinality({j \in AdmittedIdx(k) :
                   /\ log[j].now > log[i].now - cfg.period * 1000
                   /\ log[j].now <= log[i].now}) <= cfg.limit

\* the window of an admitted call is full and a later call in it was rejected
C1_Witness ==
  \E k \in Keys : \E i \in AdmittedIdx(k) : \E r \in ConsumeIdx(k) :
    /\ cfg.limit = 2
    /\ Cardinality({j \in AdmittedIdx(k) :
                      /\ log[j].now > log[i].now - cfg.period * 1000
                      /\ log[j].now <= log[i].now}) = cfg.limit
    /\ r > i /\ ~log[r].res.success
    /\ log[r].now < log[i].now + cfg.period * 1000

\* C2: with interval > 0, two consecutive admitted calls on one key are at
\* least interval*1000 ms apart.
C2_MinSpacing ==
  cfg.interval > 0 =>
    \A k \in Keys : \A i, j \in AdmittedIdx(k) :
      (i < j /\ ~\E m \in AdmittedIdx(k) : i < m /\ m < j)
        => log[j].now - log[i].now >= cfg.interval * 1000

\* a call inside the interval was rejected and a later one, exactly one
\* interval after the last admitted call, was admitted
C2_Witness ==
  \E k \in Keys : \E i, j \in AdmittedIdx(k) : \E r \in ConsumeIdx(k) :
    /\ cfg.interval > 0 /\ cfg.limit > 1
    /\ i < r /\ r < j /\ ~log[r].res.success
    /\ log[r].now > log[i].now
    /\ log[j].now - log[i].now = cfg.interval * 1000

\* the entries of a stored value that normalization keeps: numbers inside
\* the window that ends at now
LiveIdx(val, now) ==
  IF val.kind # "array" THEN {}
  ELSE {i \in DOMAIN val.items :
          val.items[i].typeof = "number" /\ val.items[i].v > now - cfg.period * 1000}

\* size of the normalized state
NormCount(val, now) == MinOf(Cardinality(LiveIdx(val, now)), cfg.limit)

\* most recent live timestamp
NormLast(val, now) ==
  CHOOSE t \in {val.items[i].v : i \in LiveIdx(val, now)} :
    \A i \in LiveIdx(val, now) : val.items[i].v <= t

ExpectLimitGate(val, now) == NormCount(val, now) < cfg.limit
ExpectIntervalGate(val, now) ==
  \/ cfg.interval = 0
  \/ LiveIdx(val, now) = {}
  \/ now - NormLast(val, now) >= cfg.interval * 1000

\* C3: Consume admits a call exactly when both gates pass on the normalized
\* state of the record it read.
C3_AdmitIffBothGates ==
  (Called /\ LastCall.op = "consume") =>
    (LastCall.res.success <=>
       (ExpectLimitGate(LastCall.before, LastCall.now)
        /\ ExpectIntervalGate(LastCall.before, LastCall.now)))

\* a Consume on a record holding an expired entry, a non-number and a live
\* entry was rejected by the interval gate with the limit gate open, and a
\* later Consume on the same key was admitted
C3_Witness ==
  \E i, j \in DOMAIN log :
    /\ i < j /\ log[i].key = log[j].key
    /\ log[i].op = "consume" /\ ~log[i].res.success
    /\ Len(log[i].before.items) = 3
    /\ Cardinality(LiveIdx(log[i].before, log[i].now)) = 1
    /\ \E e \in DOMAIN log[i].before.items :
         log[i].before.items[e] = Num(log[i].now - cfg.period * 1000)
    /\ \E e \in DOMAIN log[i].before.items : log[i].before.items[e].typeof = "string"
    /\ ExpectLimitGate(log[i].before, log[i].now)
    /\ log[j].op = "consume" /\ log[j].res.success

\* the first and the second Consume on key k, when there are that many
NthConsume(k, n) ==
  CHOOSE i \in ConsumeIdx(k) : Cardinality({j \in ConsumeIdx(k) : j <= i}) = n
NumConsumes(k) == Cardinality(ConsumeIdx(k))

\* C4: Consume on a key with no stored record returns success = true,
\* remaining = limit - 1 and reset = 0, and writes the one-element record
\* [now] under prefix + key with TTL = period.
C4_FreshKey ==
  \A i \in DOMAIN log :
    (log[i].op = "consume" /\ log[i].before.kind = "null") =>
      /\ log[i].res = [success |-> TRUE, limit |-> cfg.limit,
                       remaining |-> cfg.limit - 1, reset |-> 0]
      /\ log[i].puts = << [key |-> cfg.prefix \o log[i].key,
                           value |-> <<Num(log[i].now)>>,
                           expirationTtl |-> cfg.period] >>
      /\ log[i].after = [kind |-> "array", items |-> <<Num(log[i].now)>>,
                         expirationTtl |-> cfg.period]

\* a fresh key was consumed under the custom prefix, at a late instant,
\* after another key had been used
C4_Witness ==
  \E i \in DOMAIN log :
    /\ log[i].op = "consume" /\ log[i].before.kind = "null"
    /\ cfg.prefix = "p:" /\ cfg.interval > 0
    /\ log[i].now > 0
    /\ i > 1 /\ log[1].key # log[i].key /\ log[1].op = "consume"
    /\ store[cfg.prefix \o log[i].key].items = <<Num(log[i].now)>>

\* C5: with interval = 0, of limit + 1 Consume calls on a fresh key inside
\* one window, the i-th of the first limit is admitted with remaining =
\* limit - i and the (limit+1)-th is rejected with remaining = 0 and
\* reset = ceil((first_timestamp + period*1000 - now) / 1000).
C5_Burst ==
  cfg.interval = 0 =>
    \A k \in Keys : \A n \in 1..NumConsumes(k) :
      LET c == log[NthConsume(k, n)]
          t1 == log[NthConsume(k, 1)].now
          w == t1 + cfg.period * 1000 - c.now
      IN (n <= cfg.limit + 1 /\ w > 0) =>
           IF n <= cfg.limit
           THEN c.res.success /\ c.res.remaining = cfg.limit - n /\ c.res.reset = 0
           ELSE /\ ~c.res.success
                /\ c.res.remaining = 0
                /\ w <= c.res.reset * 1000
                /\ c.res.reset * 1000 < w + 1000

\* the scenario limit = 2, period = 60: calls at 0 and 1000 admitted, the
\* call at 2000 rejected with reset = 58
C5_Witness ==
  \E k \in Keys :
    /\ cfg.interval = 0 /\ cfg.limit = 2 /\ cfg.period = 60
    /\ NumConsumes(k) = 3
    /\ log[NthConsume(k, 1)].now = 0
    /\ log[NthConsume(k, 2)].now = 1000
    /\ log[NthConsume(k, 3)].now = 2000
    /\ log[NthConsume(k, 3)].res =
         [success |-> FALSE, limit |-> 2, remaining |-> 0, reset |-> 58]

\* C6 as stated: with interval > 0, of two Consume calls on a fresh key at
\* the same instant the first is admitted and the second is rejected with
\* reset = interval.
C6_Original ==
  cfg.interval > 0 =>
    \A k \in Keys :
      (NumConsumes(k) >= 2 /\ log[NthConsume(k, 1)].now = log[NthConsume(k, 2)].now) =>
        /\ log[NthConsume(k, 1)].res.success
        /\ ~log[NthConsume(k, 2)].res.success
        /\ log[NthConsume(k, 2)].res.reset = cfg.interval

\* C6 amended: with interval > 0, of two Consume calls on a fresh key at
\* the same instant the first is admitted and the second is rejected, with
\* reset = interval when limit >= 2 and reset = period when limit = 1 (both
\* gates block and the larger wait is reported).
C6_SameInstant ==
  cfg.interval > 0 =>
    \A k \in Keys :
      (NumConsumes(k) >= 2 /\ log[NthConsume(k, 1)].now = log[NthConsume(k, 2)].now) =>
        /\ log[NthConsume(k, 1)].res.success
        /\ ~log[NthConsume(k, 2)].res.success
        /\ log[NthConsume(k, 2)].res.reset =
             (IF cfg.limit >= 2 THEN cfg.interval ELSE cfg.period)

\* two Consume calls at one instant with limit = 2 and interval = 1: the
\* second is rejected with reset = 1
C6_Witness ==
  \E k \in Keys :
    /\ cfg.interval = 1 /\ cfg.limit = 2
    /\ NumConsumes(k) >= 2
    /\ log[NthConsume(k, 1)].now = log[NthConsume(k, 2)].now
    /\ log[NthConsume(k, 2)].res.reset = 1

LiveVals(val, now) == {val.items[i].v : i \in LiveIdx(val, now)}

\* oldest live timestamp
OldestLive(val, now) ==
  CHOOSE t \in LiveVals(val, now) : \A u \in LiveVals(val, now) : t <= u

\* oldest of the limit most recent live timestamps (there are >= limit)
OldestKept(val, now) ==
  CHOOSE t \in LiveVals(val, now) :
    /\ Cardinality({i \in LiveIdx(val, now) : val.items[i].v > t}) < cfg.limit
    /\ Cardinality({i \in LiveIdx(val, now) : val.items[i].v >= t}) >= cfg.limit

\* the wait each blocking gate asks for, on the state the call evaluates:
\* Consume evaluates the limit most recent live entries, Inspect every
\* live entry
LimitWait(e) ==
  (IF e.op = "consume" THEN OldestKept(e.before, e.now) ELSE OldestLive(e.before, e.now))
    + cfg.period * 1000 - e.now
IntervalWait(e) == NormLast(e.before, e.now) + cfg.interval * 1000 - e.now

LargestWait(e) ==
  LET byLimit == ~ExpectLimitGate(e.before, e.now)
      byInterval == ~ExpectIntervalGate(e.before, e.now)
  IN IF byLimit /\ byInterval
     THEN (IF LimitWait(e) >= IntervalWait(e) THEN LimitWait(e) ELSE IntervalWait(e))
     ELSE IF byLimit THEN LimitWait(e) ELSE IntervalWait(e)

\* C7: a rejected call reports reset = ceil(max(w, 0) / 1000), w the
\* largest wait among the gates that block; with both gates blocking it is
\* the larger of the two waits, and an open gate contributes nothing.
C7_ResetIsLargestWait ==
  (Called /\ ~LastCall.res.success) =>
    LET w == LargestWait(LastCall)
        m == IF w > 0 THEN w ELSE 0
    IN /\ m <= LastCall.res.reset * 1000
       /\ LastCall.res.reset * 1000 < m + 1000

\* a call was rejected by both gates with the interval wait the larger one,
\* and it reported the interval wait
C7_Witness ==
  \E i \in DOMAIN log :
    /\ ~log[i].res.success
    /\ ~ExpectLimitGate(log[i].before, log[i].now)
    /\ ~ExpectIntervalGate(log[i].before, log[i].now)
    /\ IntervalWait(log[i]) > LimitWait(log[i])
    /\ log[i].res.reset * 1000 >= IntervalWait(log[i])
    /\ log[i].res.reset * 1000 < IntervalWait(log[i]) + 1000

\* number of entries of the window state after the call
CountAfter(e) ==
  NormCount(e.before, e.now) + (IF e.op = "consume" /\ e.res.success THEN 1 ELSE 0)

\* C8: every result echoes limit and has remaining = max(0, limit - n), n
\* the size of the window state after the call; so 0 <= remaining <= limit,
\* remaining <= limit - 1 after an admitted Consume, and remaining > 0 when
\* the interval gate alone rejects.
C8_Remaining ==
  Called =>
    LET e == LastCall
        n == CountAfter(e)
    IN /\ e.res.limit = cfg.limit
       /\ e.res.remaining = (IF cfg.limit - n > 0 THEN cfg.limit - n ELSE 0)
       /\ 0 <= e.res.remaining /\ e.res.remaining <= cfg.limit
       /\ (e.op = "consume" /\ e.res.success) => e.res.remaining <= cfg.limit - 1
       /\ (~e.res.success /\ ExpectLimitGate(e.before, e.now)) => e.res.remaining > 0

\* a Consume on a record with one live entry was admitted and left no room,
\* after an Inspect of the same record that reported one slot
C8_Witness ==
  \E i, j \in DOMAIN log :
    /\ i < j /\ log[i].key = log[j].key
    /\ log[i].op = "get" /\ log[i].res.remaining = 1
    /\ Cardinality(LiveIdx(log[i].before, log[i].now)) = 1
    /\ Len(log[i].before.items) = 3
    /\ log[j].op = "consume" /\ log[j].res.success /\ log[j].res.remaining = 0
    /\ log[j].before = log[i].before

\* the store as it was when call i started, as far as call i's key goes
StoreBefore(i) == [store EXCEPT ![cfg.prefix \o log[i].key] = log[i].before]

\* calls i..j-1 are Inspect calls and call j is a Consume, all on one key at
\* one instant
InspectsThenConsume(i, j) ==
  /\ i < j
  /\ log[j].op = "consume"
  /\ \A m \in i..(j - 1) :
       log[m].op = "get" /\ log[m].key = log[j].key /\ log[m].now = log[j].now

\* C9: Inspect never writes to the store, and any number of Inspect calls
\* followed by Consume at the same instant gives the result and the stored
\* record of Consume alone.
C9_InspectReadOnly ==
  /\ [][(Len(log') = Len(log) + 1 /\ log'[Len(log')].op = "get")
          => (store' = store /\ log'[Len(log')].puts = <<>>)]_vars
  /\ [](\A i, j \in DOMAIN log :
          InspectsThenConsume(i, j) =>
            LET alone == ratelimiter(StoreBefore(i), log[j].key, log[j].now)
            IN /\ log[j].res = alone.res
               /\ log[j].puts = alone.puts
               /\ log[j].after = alone.KV[cfg.prefix \o log[j].key])

\* an over-limit record holding a non-number was inspected and then
\* consumed at the same instant, the Consume writing the trimmed record
C9_Witness ==
  \E i, j \in DOMAIN log :
    /\ InspectsThenConsume(i, j)
    /\ Len(log[i].before.items) = 3
    /\ Cardinality(LiveIdx(log[i].before, log[i].now)) > cfg.limit
    /\ \E e \in DOMAIN log[i].before.items : log[i].before.items[e] = NonNum
    /\ log[j].puts # <<>>
    /\ store[cfg.prefix \o log[j].key] = log[j].after

\* a record of more than limit timestamps, all inside the window
OverLimitLive(val, now) ==
  /\ val.kind = "array"
  /\ Len(val.items) > cfg.limit
  /\ LiveIdx(val, now) = DOMAIN val.items

\* C10: on a record of more than limit live timestamps Consume and Inspect
\* return, for the same clock value, the same success and the same reset,
\* computed from the oldest of the limit most recent entries; and Consume
\* writes the trimmed record back with TTL = period though it rejects.
C10_TrimmedView ==
  \A i \in DOMAIN log :
    OverLimitLive(log[i].before, log[i].now) =>
      LET e == log[i]
          w == LargestWait([e EXCEPT !.op = "consume"])
      IN /\ ~e.res.success
         /\ w <= e.res.reset * 1000
         /\ e.res.reset * 1000 < w + 1000
         /\ e.op = "consume" =>
              /\ Len(e.after.items) = cfg.limit
              /\ e.after.items[1] = Num(OldestKept(e.before, e.now))
              /\ e.after.expirationTtl = cfg.period
              /\ Len(e.puts) = 1

\* the same call with the store answering and accepting everything
CleanConsume(KV, e) == ratelimiterIO(KV, e.key, e.now, NoFaults)
CleanInspect(KV, e) == ratelimiterGetIO(KV, e.key, e.now, NoFaults)

\* the namespace with the record of call e's key as e found it / absent
StoreAsRead(e) == [store EXCEPT ![cfg.prefix \o e.key] = e.before]
StoreWithout(e) == [store EXCEPT ![cfg.prefix \o e.key] = Absent]

\* C11: a Consume or Inspect whose store read fails raises no error and
\* returns the result, and issues the write, of the same call against an
\* absent record; every such Consume is admitted with remaining = limit - 1.
C11_FailOpenOnRead ==
  (Called /\ LastCall.getFailed) =>
    LET e == LastCall
        ref == IF e.op = "consume" THEN CleanConsume(StoreWithout(e), e)
               ELSE CleanInspect(StoreWithout(e), e)
    IN /\ e.error = NoError
       /\ e.res = ref.res
       /\ e.puts = ref.puts
       /\ e.op = "consume" =>
            /\ e.res.success /\ e.res.remaining = cfg.limit - 1 /\ e.res.reset = 0
            /\ e.puts = <<[key |-> cfg.prefix \o e.key, value |-> <<Num(e.now)>>,
                           expirationTtl |-> cfg.period]>>
       /\ e.op = "get" => e.res.success /\ e.res.remaining = cfg.limit /\ e.puts = <<>>

\* a Consume whose read failed was admitted although the stored record is
\* full, and its write replaced that record
C11_Witness ==
  /\ Called /\ LastCall.op = "consume" /\ LastCall.getFailed
  /\ Len(LastCall.before.items) = cfg.limit
  /\ LiveIdx(LastCall.before, LastCall.now) = DOMAIN LastCall.before.items
  /\ LastCall.res.success
  /\ ~LastCall.putFailed
  /\ store[cfg.prefix \o LastCall.key].items = <<Num(LastCall.now)>>

\* C12: a Consume whose store write fails raises no error, returns the
\* result it returns when the write succeeds, and leaves the stored record
\* as it was before the call.
C12_FailSilentOnWrite ==
  (Called /\ LastCall.putFailed) =>
    LET e == LastCall
        ref == CleanConsume(IF e.getFailed THEN StoreWithout(e) ELSE StoreAsRead(e), e)
    IN /\ e.op = "consume"
       /\ e.error = NoError
       /\ e.res = ref.res
       /\ e.puts = ref.puts
       /\ e.after = e.before
       /\ store[cfg.prefix \o e.key] = e.before

\* an admitted Consume lost its write, and the next Consume at the same
\* instant, reading the unchanged record, was admitted as well
C12_Witness ==
  /\ Len(log) = 2
  /\ log[1].op = "consume" /\ log[1].putFailed /\ log[1].res.success
  /\ log[2].op = "consume" /\ ~log[2].getFailed /\ log[2].res.success
  /\ log[2].key = log[1].key /\ log[2].now = log[1].now
  /\ cfg.limit = 1
  /\ log[2].before = log[1].before

\* C15: Consume and Inspect called with an empty key fail with the key
\* error and perform no store read and no store write; every stored record
\* is unchanged by the failed call.
C15_EmptyKey ==
  /\ [](Called /\ LastCall.key = "" =>
          /\ LastCall.error = KeyError
          /\ LastCall.gets = 0
          /\ LastCall.puts = <<>>)
  /\ [][(Len(log') = Len(log) + 1 /\ log'[Len(log')].key = "") => store' = store]_vars

\* after an admitted Consume left a record, a Consume with the empty key
\* failed and the record is still there
C15_Witness ==
  /\ Len(log) = 2
  /\ log[1].op = "consume" /\ log[1].key = "a" /\ log[1].res.success
  /\ log[2].op = "consume" /\ log[2].key = "" /\ log[2].error = KeyError
  /\ store["ratelimit:a"] = log[1].after
  /\ log[1].after.items = <<Num(log[1].now)>>

\* number of entries of the raw array a call read
RawLen(val) == IF val.kind = "array" THEN Len(val.items) ELSE 0

\* w holds, in ascending order, the NormCount most recent live timestamps of
\* the stored value val
IsNormalized(w, val, now) ==
  /\ Len(w) = NormCount(val, now)
  /\ \A i, j \in DOMAIN w : i < j => w[i] <= w[j]
  /\ \E f \in [DOMAIN w -> LiveIdx(val, now)] :
       /\ \A i, j \in DOMAIN w : i # j => f[i] # f[j]
       /\ \A i \in DOMAIN w : val.items[f[i]].v = w[i]
       /\ \A k \in LiveIdx(val, now) :
            (\A i \in DOMAIN w : f[i] # k) => \A i \in DOMAIN w : val.items[k].v <= w[i]

\* the timestamps of a written value
Written(put) == [i \in DOMAIN put.value |-> put.value[i].v]

\* C18: an admitted Consume performs exactly one write, of the normalized
\* state with now appended; a rejected Consume writes iff normalization
\* removed at least one entry, and then writes the normalized state; a
\* rejected Consume whose normalization removed nothing writes nothing and
\* leaves the record unchanged.  Every write uses TTL = period.
C18_WriteBack ==
  (Called /\ LastCall.op = "consume") =>
    LET e == LastCall
        removed == NormCount(e.before, e.now) < RawLen(e.before)
    IN /\ Len(e.puts) <= 1
       /\ \A p \in DOMAIN e.puts :
            /\ e.puts[p].expirationTtl = cfg.period
            /\ e.puts[p].key = cfg.prefix \o e.key
            /\ \A i \in DOMAIN e.puts[p].value : e.puts[p].value[i].typeof = "number"
            /\ e.after = ArrayVal(e.puts[p].value, cfg.period)
       /\ e.res.success =>
            /\ Len(e.puts) = 1
            /\ LET w == Written(e.puts[1])
               IN /\ Len(w) >= 1
                  /\ w[Len(w)] = e.now
                  /\ IsNormalized(SubSeq(w, 1, Len(w) - 1), e.before, e.now)
       /\ (~e.res.success /\ removed) =>
            /\ Len(e.puts) = 1
            /\ IsNormalized(Written(e.puts[1]), e.before, e.now)
       /\ (~e.res.success /\ ~removed) =>
            /\ e.puts = <<>>
            /\ e.after = e.before

\* a rejected Consume on a record of three entries wrote the one it kept,
\* and the next Consume, rejected on that record, wrote nothing
C18_Witness ==
  \E i, j \in DOMAIN log :
    /\ j = i + 1
    /\ log[i].op = "consume" /\ ~log[i].res.success
    /\ Len(log[i].before.items) = 3
    /\ Len(log[i].puts) = 1 /\ Len(log[i].puts[1].value) = 1
    /\ log[j].op = "consume" /\ ~log[j].res.success
    /\ log[j].before = log[i].after
    /\ log[j].puts = <<>>
    /\ log[j].after = log[j].before

\* C19: reset is a sufficient wait: if a Consume at time now is rejected with
\* reset = r and no call on that key is admitted in between, a Consume at
\* any time >= now + r * 1000 is admitted.
C19_ResetSuffices ==
  (Called /\ LastCall.op = "consume") =>
    \A i \in DOMAIN log :
      ( /\ i < Len(log)
        /\ log[i].op = "consume" /\ log[i].key = LastCall.key
        /\ ~log[i].res.success
        /\ \A m \in DOMAIN log :
             (i < m /\ m < Len(log) /\ log[m].key = LastCall.key) => ~log[m].res.success \/ log[m].op = "get"
        /\ LastCall.now >= log[i].now + log[i].res.reset * 1000 )
      => LastCall.res.success

\* a Consume was rejected with reset = r > 0 and the next Consume, exactly
\* r seconds later, was admitted
C19_Witness ==
  \E i, j \in DOMAIN log :
    /\ j = i + 1
    /\ log[i].op = "consume" /\ ~log[i].res.success /\ log[i].res.reset > 0
    /\ log[j].op = "consume" /\ log[j].key = log[i].key
    /\ log[j].now = log[i].now + log[i].res.reset * 1000
    /\ log[j].res.success

\* the record of the key the concurrent calls use
ConcRecord == store[cfg.prefix \o "a"]

\* calls i and j ran concurrently: each read the record before the put of
\* the other landed, and both puts have landed
BothAppended(i, j) ==
  /\ i # j
  /\ log[i].pc = "done" /\ log[j].pc = "done"
  /\ log[i].res.success /\ log[j].res.success
  /\ log[i].wRead < log[j].wseq /\ log[j].wRead < log[i].wseq
  /\ RawLen(log[i].before) < cfg.limit /\ RawLen(log[j].before) < cfg.limit

\* the put of call j is the last that landed
LastWriter(j) == log[j].wseq > 0 /\ log[j].wseq = NumWrites

\* the statement of C16 as made: once two concurrent Consume calls that both
\* read a record with fewer than limit entries have both appended, the
\* stored record holds more than limit timestamps.
C16_Original ==
  \A i, j \in DOMAIN log :
    (BothAppended(i, j) /\ log[i].wseq < log[j].wseq /\ LastWriter(j))
      => RawLen(ConcRecord) > cfg.limit

\* C16: no interleaving of concurrent Consume calls leaves more than limit
\* timestamps in the stored record: each put replaces the record by an
\* array of at most limit entries, so after two concurrent calls have both
\* appended the record is the one the later put wrote.
C16_NoOvershoot ==
  /\ RawLen(ConcRecord) <= cfg.limit
  /\ \A i, j \in DOMAIN log :
       (BothAppended(i, j) /\ log[i].wseq < log[j].wseq /\ LastWriter(j))
         => /\ ConcRecord = ArrayVal(log[j].puts[1].value, cfg.period)
            /\ RawLen(ConcRecord) <= RawLen(log[j].before) + 1

\* two concurrent calls read the same record of one entry under limit 2,
\* both appended, and both puts have landed
C16_Witness ==
  \E i, j \in DOMAIN log :
    /\ BothAppended(i, j) /\ log[i].wseq < log[j].wseq /\ LastWriter(j)
    /\ cfg.limit = 2
    /\ RawLen(log[i].before) = 1
    /\ log[i].before = log[j].before
    /\ RawLen(ConcRecord) = 2

\* calls i and j have read the same record, with one free slot and the
\* interval gate open at the instant of each
SameFreeSlot(i, j) ==
  /\ i # j
  /\ log[i].pc # "clock" /\ log[j].pc # "clock"
  /\ log[i].before = log[j].before
  /\ Cardinality(LiveIdx(log[i].before, log[i].now)) = cfg.limit - 1
  /\ Cardinality(LiveIdx(log[j].before, log[j].now)) = cfg.limit - 1
  /\ ExpectIntervalGate(log[i].before, log[i].now)
  /\ ExpectIntervalGate(log[j].before, log[j].now)

\* admitted calls whose instant lies in the window that ends at hi
AdmittedInWindow(hi) ==
  {m \in DOMAIN log : /\ log[m].pc # "clock" /\ log[m].res.success
                      /\ log[m].now > hi - cfg.period * 1000 /\ log[m].now <= hi}

\* number of entries of a stored value that hold the timestamp t
Occurrences(val, t) == Cardinality({k \in DOMAIN val.items : val.items[k] = Num(t)})

\* C17: two concurrent Consume calls that read the same record with exactly
\* one free slot are both admitted, and once both puts have landed the
\* store holds only the record of the later put, limit entries, so one of
\* the two admitted timestamps has no entry of its own in the store.
C17_LostUpdate ==
  \A i, j \in DOMAIN log :
    SameFreeSlot(i, j) =>
      /\ log[i].res.success /\ log[j].res.success
      /\ (log[i].pc = "done" /\ log[j].pc = "done" /\ log[i].wseq < log[j].wseq /\ LastWriter(j))
           => /\ ConcRecord = ArrayVal(log[j].puts[1].value, cfg.period)
              /\ RawLen(ConcRecord) = cfg.limit
              /\ log[i].now # log[j].now =>
                   Occurrences(ConcRecord, log[i].now) = Occurrences(log[i].before, log[i].now)

\* the lost update and its effect: two concurrent calls were admitted on the
\* same record, the timestamp of the earlier put is gone, and a Consume that
\* began after both puts was admitted with the lost timestamp still inside
\* its window, which then holds more than limit admitted calls
C17_Witness ==
  \E i, j, m \in DOMAIN log :
    /\ SameFreeSlot(i, j)
    /\ log[i].pc = "done" /\ log[j].pc = "done" /\ log[m].pc = "done"
    /\ log[i].wseq < log[j].wseq
    /\ log[m].wBegin >= log[j].wseq
    /\ log[m].res.success
    /\ log[i].now > log[m].now - cfg.period * 1000
    /\ \A k \in DOMAIN log[m].before.items : log[m].before.items[k].v # log[i].now
    /\ Cardinality(AdmittedInWindow(log[m].now)) > cfg.limit

\* s is in ascending order
Ascending(s) == \A a, b \in DOMAIN s : a < b => s[a] <= s[b]

\* the timestamps call i kept from the record it read
Retained(i) ==
  LET w == Written(log[i].puts[1])
  IN IF log[i].res.success THEN SubSeq(w, 1, Len(w) - 1) ELSE w

\* the statement of C20 as made: every record a Consume writes is in
\* ascending order.
C20_Original ==
  \A i \in DOMAIN log : log[i].puts # <<>> => Ascending(Written(log[i].puts[1]))

\* C20: the timestamps a Consume retains are written in ascending order and
\* an admitted call writes its now after them; now is >= every retained
\* timestamp when no put landed between the call's clock read and the
\* answer to its get.
C20_AscendingUnlessOvertaken ==
  \A i \in DOMAIN log :
    log[i].puts # <<>> =>
      LET w == Written(log[i].puts[1])
      IN /\ Ascending(Retained(i))
         /\ log[i].res.success => w = Append(Retained(i), log[i].now)
         /\ log[i].wBegin = log[i].wRead => Ascending(w)

\* an admitted call read its clock after the put whose timestamp it
\* retained, and wrote both in order; another admitted call was overtaken
\* and wrote its now after a later timestamp
C20_Witness ==
  \E i, j \in DOMAIN log :
    /\ log[i].puts # <<>> /\ log[i].res.success
    /\ log[i].wBegin = log[i].wRead /\ log[i].wBegin > 0
    /\ Len(Retained(i)) = 1 /\ Retained(i)[1] < log[i].now
    /\ log[j].puts # <<>> /\ log[j].res.success
    /\ log[j].wBegin < log[j].wRead
    /\ Len(Retained(j)) = 1 /\ Retained(j)[1] > log[j].now

\* the store capability the options carry exposes get and put
StoreGiven == cfg.opts.capability = "valid"

\* C13: constructing the limiter without a store capability that exposes get
\* and put fails at construction with a configuration error, so no Consume
\* or Inspect call is ever made on such a limiter and no store I/O happens.
C13_StoreRequiredAtConstruction ==
  ~StoreGiven => /\ cfg.error # NoError
                 /\ log = <<>>

\* the constraint an error message names
ConstraintOf(msg) ==
  CASE msg = BindingOptError -> "store"
    [] msg = BindingError -> "store"
    [] msg = PrefixError -> "prefix"
    [] msg = LimitError -> "limit"
    [] msg = PeriodError -> "period"
    [] msg = IntervalError -> "interval"
    [] msg = IntervalPeriodError -> "interval > period"
    [] OTHER -> "none"

\* whole seconds of a given option: n <= x < n + 1 in halves
Whole(x) == CHOOSE n \in -2..200 : 2 * n <= x.halves /\ x.halves < 2 * n + 2

\* the first violated constraint in the order store capability, prefix,
\* limit, period, interval < 0, interval > period
FirstViolated(o) ==
  IF o.capability # "valid" \/ o.binding = "nonstring" THEN "store"
  ELSE IF o.prefix = "" THEN "prefix"
  ELSE IF ~o.limit.given \/ Whole(o.limit) < 1 THEN "limit"
  ELSE IF ~o.period.given \/ Whole(o.period) < 60 THEN "period"
  ELSE IF o.interval.given /\ Whole(o.interval) < 0 THEN "interval"
  ELSE IF o.interval.given /\ Whole(o.interval) > Whole(o.period) THEN "interval > period"
  ELSE "none"

\* construction reports the first violated constraint, and with none violated
\* yields the configuration with its defaults
ReportsFirstViolated ==
  /\ ConstraintOf(cfg.error) = FirstViolated(cfg.opts)
  /\ cfg.error = NoError =>
       /\ cfg.limit = Whole(cfg.opts.limit)
       /\ cfg.period = Whole(cfg.opts.period)
       /\ cfg.interval = IF cfg.opts.interval.given THEN Whole(cfg.opts.interval) ELSE 0
       /\ cfg.prefix = IF cfg.opts.prefix = "undefined" THEN "ratelimit:" ELSE cfg.opts.prefix

\* C14: construction fails with the error of the first violated constraint in
\* the order missing/invalid store capability, empty prefix, limit < 1,
\* period < 60, interval < 0, interval > period; violating none it succeeds
\* with interval defaulting to 0 and prefix defaulting to 'ratelimit:'.
C14_FirstViolatedConstraint == ReportsFirstViolated

\* the same order and defaults for the options that carry a valid store
ValidationOrderGivenStore == StoreGiven => ReportsFirstViolated

\* C21: for Consume and Inspect, success implies reset = 0; in sequential
\* calls from an absent record with a non-decreasing clock a rejected call
\* has 1 <= reset <= period: a rejection never reports reset = 0 and never
\* asks for a wait longer than one window.
C21_ResetRange ==
  Called =>
    /\ LastCall.res.success => LastCall.res.reset = 0
    /\ ~LastCall.res.success =>
         /\ 1 <= LastCall.res.reset
         /\ LastCall.res.reset <= cfg.period

\* both ends of the range: a call rejected at the instant of the admitted one
\* reported reset = period, an Inspect one millisecond before the end of the
\* window reported reset = 1, and the admitted call reported reset = 0
C21_Witness ==
  \E i, j, m \in DOMAIN log :
    /\ i < j /\ j < m
    /\ log[i].key = log[j].key /\ log[j].key = log[m].key
    /\ log[i].op = "consume" /\ log[i].res.success /\ log[i].res.reset = 0
    /\ log[j].op = "consume" /\ ~log[j].res.success
    /\ log[j].now = log[i].now /\ log[j].res.reset = cfg.period
    /\ log[m].op = "get" /\ ~log[m].res.success
    /\ log[m].now = log[i].now + cfg.period * 1000 - 1
    /\ log[m].res.reset = 1

\* the entries of the record the expiring namespace has dropped
DroppedEntries ==
  IF store.ttl["ratelimit:a"].val = Absent
  THEN {store.never["ratelimit:a"].items[i] : i \in DOMAIN store.never["ratelimit:a"].items}
  ELSE {}

\* C22: store TTL expiry never changes a decision: a record the store has
\* dropped after its TTL holds only timestamps already outside the window,
\* so every Consume and Inspect returns the same result, and issues the same
\* puts, against the expiring namespace as against the one that never drops
\* a record.
C22_ExpiryChangesNothing ==
  /\ \A e \in DroppedEntries : ~Live(e, clock)
  /\ Called => /\ LastCall.resX = LastCall.res
               /\ LastCall.putsX = LastCall.puts

\* the expiring namespace had dropped a record that the other still held:
\* an Inspect and then a Consume ran on both, with the same results
C22_Witness ==
  \E i, j \in DOMAIN log :
    /\ j = i + 1
    /\ log[i].op = "get" /\ log[j].op = "consume"
    /\ log[i].beforeX = Absent /\ log[i].before.kind = "array"
    /\ log[j].beforeX = Absent /\ log[j].before.kind = "array"
    /\ log[i].resX = log[i].res
    /\ log[j].resX = log[j].res /\ log[j].res.success
    /\ store.ttl["ratelimit:a"].val = store.never["ratelimit:a"]

TypeOK ==
  /\ cfg \in Configs
  /\ clock \in Instants
  /\ Len(log) <= budget
====
